---- MODULE Spec2Model ----
(***************************************************************************)
(* Work item attachment tools of mcp_azure_devops                          *)
(* (features/work_items/tools/attachments.py): the two registered tools    *)
(* download_work_item_attachment and upload_attachment_to_work_item, the   *)
(* three implementation functions they call, the container filesystem and  *)
(* the Azure DevOps work item tracking client they talk to.                *)
(*                                                                         *)
(* A string is a sequence of one-character strings; a text the tools       *)
(* return or raise is a sequence of string fragments.  The calls into the  *)
(* SDK client and the filesystem answer nondeterministically: each may     *)
(* succeed or raise.                                                       *)
(***************************************************************************)
EXTENDS Integers, Sequences, FiniteSets, TLC

VARIABLES
    fs,         \* regular files of the container: resolved path -> content
    dirs,       \* directories of the container (resolved paths)
    fs0,        \* the regular files as they were before the tool call
    workItems,  \* the server's work items: id -> [hasRelations, relations, rev]
    pc,         \* position of the running tool call
    tool,       \* "none", "download" or "upload"
    args,       \* the arguments of the running tool call
    locals,     \* local values of the implementation functions
    calls,      \* SDK operations invoked by the running tool call, in order
    result      \* the text the tool returned (<<>> until it returns)

vars == <<fs, dirs, fs0, workItems, pc, tool, args, locals, calls, result>>

----------------------------------------------------------------------------
(* Bounds of the model *)

MaxChunks == 2      \* chunks a content generator yields

----------------------------------------------------------------------------
(* Strings *)

RECURSIVE Flatten(_)
Flatten(ss) == IF ss = <<>> THEN <<>> ELSE Head(ss) \o Flatten(Tail(ss))

StartsWith(s, p) == Len(s) >= Len(p) /\ SubSeq(s, 1, Len(p)) = p

EndsWith(s, p) == Len(s) >= Len(p) /\ SubSeq(s, Len(s) - Len(p) + 1, Len(s)) = p

\* Python's `sub in s` on strings
Contains(s, sub) ==
    \E i \in 1..(Len(s) - Len(sub) + 1) : SubSeq(s, i, i + Len(sub) - 1) = sub

HasChar(s, c) == \E i \in 1..Len(s) : s[i] = c

\* str.replace(old, new) for one-character old and new
Replace(s, old, new) == [i \in 1..Len(s) |-> IF s[i] = old THEN new ELSE s[i]]

\* str.split(sep) for a one-character sep: the list of fields
RECURSIVE Split(_, _)
Split(s, sep) ==
    IF ~HasChar(s, sep) THEN <<s>>
    ELSE LET i == CHOOSE k \in 1..Len(s) :
                      s[k] = sep /\ \A j \in 1..(k - 1) : s[j] # sep
         IN  <<SubSeq(s, 1, i - 1)>> \o Split(SubSeq(s, i + 1, Len(s)), sep)

Last(seq) == seq[Len(seq)]

\* os.path.basename (posixpath): what follows the last "/"
Basename(p) == Last(Split(p, "/"))

\* os.path.join(a, b) (posixpath)
Join(a, b) ==
    IF StartsWith(b, <<"/">>) THEN b
    ELSE IF a = <<>> \/ EndsWith(a, <<"/">>) THEN a \o b
    ELSE a \o <<"/">> \o b

\* os.path.dirname (posixpath)
Dirname(p) ==
    LET idx == {i \in 1..Len(p) : p[i] = "/"}
    IN  IF idx = {} THEN <<>>
        ELSE LET i == CHOOSE k \in idx : \A j \in idx : j <= k
                 head == SubSeq(p, 1, i)
             IN  IF \A j \in 1..Len(head) : head[j] = "/" THEN head
                 ELSE LET stripLen == CHOOSE n \in 1..Len(head) :
                                  head[n] # "/" /\ \A j \in (n + 1)..Len(head) : head[j] = "/"
                      IN  SubSeq(head, 1, stripLen)

----------------------------------------------------------------------------
(* The container's filesystem *)

Root == <<"/">>
DownloadsDir == <<"/", "d", "o", "w", "n", "l", "o", "a", "d", "s">>
UploadsDir == <<"/", "u", "p", "l", "o", "a", "d", "s">>
TmpDir == <<"/", "t", "m", "p">>
HomeDir == <<"/", "h", "o", "m", "e">>
\* the working directory of the server process
Cwd == <<"/", "a", "p", "p">>

FileA == <<"a">>

\* the regular files that may be present before a tool call
FileUniverse ==
    { Join(DownloadsDir, FileA), Join(UploadsDir, FileA), Join(TmpDir, FileA),
      Join(Cwd, FileA), Join(HomeDir, FileA) }

\* content of a file that was there before the call
OldContent == <<1, 0, 1, 0, 1, 0>>

AllDirs == {Root, DownloadsDir, UploadsDir, TmpDir, HomeDir, Cwd}

\* the directory holding a resolved (absolute) path
Parent(p) == Dirname(p)

\* The kernel's path walk from directory cur over the components comps:
\* <<TRUE, resolved path>>, or <<FALSE, <<>>>> when a component is missing
\* or is not a directory.
RECURSIVE Walk(_, _, _)
Walk(cur, comps, d) ==
    IF comps = <<>> THEN <<TRUE, cur>>
    ELSE IF cur \notin d THEN <<FALSE, <<>>>>
    ELSE LET c == Head(comps)
         IN  IF c = <<>> \/ c = <<".">> THEN Walk(cur, Tail(comps), d)
             ELSE IF c = <<".", ".">> THEN Walk(Parent(cur), Tail(comps), d)
             ELSE Walk(Join(cur, c), Tail(comps), d)

\* The file or directory a path names, relative paths from Cwd
Resolve(p, d) ==
    IF p = <<>> THEN <<FALSE, <<>>>>
    ELSE IF StartsWith(p, <<"/">>) THEN Walk(Root, Split(p, "/"), d)
    ELSE Walk(Cwd, Split(p, "/"), d)

IsDir(p, d) == Resolve(p, d)[1] /\ Resolve(p, d)[2] \in d

IsFile(p, f, d) == Resolve(p, d)[1] /\ Resolve(p, d)[2] \in DOMAIN f

\* os.path.exists
Exists(p, f, d) == IsDir(p, d) \/ IsFile(p, f, d)

\* os.path.abspath of an absolute path (posixpath.normpath): "", "." and ".."
\* components are folded textually
RECURSIVE NormFold(_, _)
NormFold(stack, comps) ==
    IF comps = <<>> THEN stack
    ELSE LET c == Head(comps)
         IN  IF c = <<>> \/ c = <<".">> THEN NormFold(stack, Tail(comps))
             ELSE IF c = <<".", ".">>
                  THEN NormFold(IF stack = <<>> THEN stack
                                ELSE SubSeq(stack, 1, Len(stack) - 1), Tail(comps))
             ELSE NormFold(Append(stack, c), Tail(comps))

RECURSIVE JoinAll(_)
JoinAll(comps) ==
    IF comps = <<>> THEN <<>> ELSE <<"/">> \o Head(comps) \o JoinAll(Tail(comps))

Abspath(p) ==
    LET stack == NormFold(<<>>, Split(p, "/"))
    IN  IF stack = <<>> THEN Root ELSE JoinAll(stack)

\* a directory path and the directories above it
RECURSIVE Ancestors(_)
Ancestors(p) == IF p = Root \/ p = <<>> THEN {Root} ELSE {p} \cup Ancestors(Dirname(p))

\* os.makedirs(p, exist_ok=True) of a normalised absolute path: the
\* directories afterwards; it raises when a component is a regular file
MakedirsRaises(p, f) == \E q \in Ancestors(p) : q \in DOMAIN f

Makedirs(p, d) == d \cup Ancestors(p)

\* The regular file open(p, "wb") would create or truncate:
\* <<TRUE, resolved path>>, or <<FALSE, <<>>>> when the directory holding it
\* is missing or p names a directory.
WriteTarget(p, d) ==
    LET comps == Split(p, "/")
        last == Last(comps)
        start == IF StartsWith(p, <<"/">>) THEN Root ELSE Cwd
        dir == Walk(start, SubSeq(comps, 1, Len(comps) - 1), d)
    IN  IF p = <<>> \/ ~dir[1] \/ dir[2] \notin d THEN <<FALSE, <<>>>>
        ELSE IF last = <<>> \/ last = <<".">> \/ last = <<".", ".">> THEN <<FALSE, <<>>>>
        ELSE IF Join(dir[2], last) \in d THEN <<FALSE, <<>>>>
        ELSE <<TRUE, Join(dir[2], last)>>

\* OpenWb with the file opened for appending: what was there is kept
OpenAppend(f, target) ==
    [q \in DOMAIN f \cup {target} |-> IF q \in DOMAIN f THEN f[q] ELSE <<>>]

\* open(p, "wb"): the file is created, or truncated when it exists
OpenWb(f, target) ==
    [q \in DOMAIN f \cup {target} |-> IF q = target THEN <<>> ELSE f[q]]

\* f.write(chunk) for every chunk, in order, on the file at target
RECURSIVE WriteChunks(_, _, _)
WriteChunks(f, target, chunks) ==
    IF chunks = <<>> THEN f
    ELSE WriteChunks([f EXCEPT ![target] = @ \o Head(chunks)], target, Tail(chunks))

\* total_size += len(chunk) for every chunk
RECURSIVE TotalSize(_)
TotalSize(chunks) ==
    IF chunks = <<>> THEN 0 ELSE Len(Head(chunks)) + TotalSize(Tail(chunks))

----------------------------------------------------------------------------
(* The work item tracking client and its server *)

\* "u/": the address under which the server stores attachments
UrlBase == <<"u", "/">>

AttachmentUrl(id) == UrlBase \o id

AttachmentIds == { <<"a">>, <<"a", "b">>, <<"c">> }

\* ids a tool may be called with; item 4 does not exist on the server
WorkItemIds == 1..4

NoWorkItem == [exists |-> FALSE, hasRelations |-> FALSE, relations |-> <<>>, rev |-> 0]

Relation(rel, url, name, contentType) ==
    [rel |-> rel, url |-> url,
     attributes |-> [name |-> name, comment |-> <<>>, contentType |-> contentType]]

\* the work items of the server before the tool call:
\* 1 has no relation list, 2 an empty one, 3 a link and an attached file
InitialWorkItems ==
    [id \in WorkItemIds |->
        IF id = 1 THEN [exists |-> TRUE, hasRelations |-> FALSE, relations |-> <<>>, rev |-> 1]
        ELSE IF id = 2 THEN [exists |-> TRUE, hasRelations |-> TRUE, relations |-> <<>>, rev |-> 2]
        ELSE IF id = 3 THEN
            [exists |-> TRUE, hasRelations |-> TRUE,
             relations |-> << Relation("Hyperlink", AttachmentUrl(<<"a">>), <<"l">>, <<>>),
                              Relation("AttachedFile", AttachmentUrl(<<"a", "b">>),
                                       <<"d", "/", "f">>, <<"t">>) >>,
             rev |-> 3]
        ELSE NoWorkItem]

\* one SDK operation invoked by the tool call, with what it was given
Call(op, wid, aid, name, patch, ok) ==
    [op |-> op, wid |-> wid, aid |-> aid, file_name |-> name, patch |-> patch, ok |-> ok]

\* str(e) of an error raised by the SDK, by get_work_item_client or by the OS
SdkMessage == <<"sdk failure">>
ClientMessage == <<"client failure">>
OsMessage == <<"os failure">>

\* Python's None for an optional string, and the test `not x`
None == <<"None">>
Falsy(x) == x = None \/ x = <<>>

\* an exception of class AzureDevOpsClientError, or of another class
ClientError(msg) == [kind |-> "AzureDevOpsClientError", msg |-> msg]
OtherError(msg) == [kind |-> "Exception", msg |-> msg]

\* the chunks a content generator may yield
Chunks == { <<>>, <<1>>, <<0, 1>> }
ChunkLists == UNION { [1..n -> Chunks] : n \in 0..MaxChunks }

----------------------------------------------------------------------------
(* download_work_item_attachment *)

\* _get_attachment_info_from_work_item, given what get_work_item did:
\* [ok |-> TRUE, info] or [ok |-> FALSE, exc]
FirstMatch(relations, attachment_id) ==
    LET hits == {i \in 1..Len(relations) :
                    /\ relations[i].rel = "AttachedFile"
                    /\ Contains(relations[i].url, attachment_id)}
    IN  IF hits = {} THEN 0 ELSE CHOOSE i \in hits : \A j \in hits : i <= j

\* HasNoRelations without the test of the relation list
HasNoWorkItem(work_item) == ~work_item.exists

\* `not work_item or not work_item.relations`
HasNoRelations(work_item) ==
    ~work_item.exists \/ ~work_item.hasRelations \/ work_item.relations = <<>>

GetAttachmentInfoFromWorkItem(work_item_id, attachment_id, raised, work_item) ==
    LET wrap(msg) == [ok |-> FALSE,
                      exc |-> ClientError(<<"Error getting attachment information: ">> \o msg)]
    IN  IF raised THEN wrap(SdkMessage)
        ELSE IF HasNoRelations(work_item)
        THEN wrap(<<"No attachments found in work item ", ToString(work_item_id)>>)
        ELSE LET i == FirstMatch(work_item.relations, attachment_id)
             IN  IF i = 0
                 THEN wrap(<<"Attachment ">> \o attachment_id
                           \o <<" not found in work item ", ToString(work_item_id)>>)
                 ELSE [ok |-> TRUE,
                       info |-> [name |-> Basename(work_item.relations[i].attributes.name),
                                 url |-> work_item.relations[i].url,
                                 attributes |-> work_item.relations[i].attributes]]

\* the except clause of _download_attachment_impl
DownloadImplError(work_item_id, attachment_id, msg) ==
    ClientError(<<"Error downloading attachment ">> \o attachment_id
                \o <<" from work item ", ToString(work_item_id), ": ">> \o msg)

\* the test for a Windows path, the same in download and upload
IsWindowsPath(path) ==
    \/ HasChar(path, "\\")
    \/ (HasChar(path, ":") /\ Len(Split(path, ":")[1]) = 1)

\* the file name taken from a Windows path
WindowsFilename(path) == Last(Split(Replace(path, "\\", "/"), "/"))

\* DownloadFilename with a path that is no Windows path kept whole
DownloadFilenameWholePath(output_path) ==
    IF IsWindowsPath(output_path) THEN WindowsFilename(output_path)
    ELSE output_path

\* final_path of _download_attachment_impl
DownloadFilename(output_path) ==
    IF IsWindowsPath(output_path) THEN WindowsFilename(output_path)
    ELSE Basename(output_path)

FinalPath(output_path) == Join(DownloadsDir, DownloadFilename(output_path))

\* DownloadToolError with the second except clause left out: the exception
\* leaves the tool, which returns no text
DownloadToolErrorUncaught(exc) ==
    IF exc.kind = "AzureDevOpsClientError" THEN <<"Error", ":", " ">> \o exc.msg
    ELSE <<>>

\* the except clauses of the download tool: the text it returns for an exception
DownloadToolError(exc) ==
    IF exc.kind = "AzureDevOpsClientError" THEN <<"Error", ":", " ">> \o exc.msg
    ELSE <<"Error", " downloading attachment", ":", " ">> \o exc.msg

\* the response the download tool formats
DownloadResponse(res) ==
    <<"# Attachment Downloaded Successfully", "\n", "Filename", ":", " ">> \o res.filename
    \o <<"\n", "Size", ":", " ", ToString(res.size), " bytes", "\n", "Content Type", ":", " ">>
    \o res.content_type
    \o <<"\n", "Saved to", ":", " ">> \o res.saved_to
    \o <<"\n", "", "\n", "The file is now available for viewing or processing.">>

----------------------------------------------------------------------------
(* State of a tool call *)

NoInfo == [name |-> <<>>, url |-> <<>>,
           attributes |-> [name |-> <<>>, comment |-> <<>>, contentType |-> <<>>]]

InitLocals ==
    [ status |-> "running",        \* "running", "ok" or "failed"
      exc |-> "none",              \* class of the exception the tool caught
      wit_client |-> FALSE,        \* get_work_item_client returned a client
      attachment_info |-> NoInfo,
      chunks |-> <<>>,             \* what the content generator yields
      generatorRaises |-> FALSE,   \* and whether it raises after that
      final_path |-> <<>>,
      total_size |-> 0,
      located |-> FALSE,           \* the upload's file was located
      container_path |-> <<>>,
      file_name |-> <<>>,
      content_type |-> <<>>,
      attachment_url |-> <<>>,
      size |-> 0,
      updated_work_item_rev |-> 0 ]

NoArgs == [work_item_id |-> 0, attachment_id |-> <<>>, output_path |-> <<>>,
           file_path |-> <<>>, file_name |-> None, comment |-> None]

\* the files present before a call: any part of FileUniverse, the old content in each
InitialFiles(present) == [q \in present |-> OldContent]

Init ==
    /\ \E present \in SUBSET FileUniverse, d \in {AllDirs, AllDirs \ {DownloadsDir}} :
          /\ \A q \in present : Dirname(q) \in d
          /\ fs = InitialFiles(present)
          /\ dirs = d
    /\ fs0 = fs
    /\ workItems = InitialWorkItems
    /\ pc = "idle"
    /\ tool = "none"
    /\ args = NoArgs
    /\ locals = InitLocals
    /\ calls = <<>>
    /\ result = <<>>

\* the paths a download is asked to save to
OutputPaths ==
    { <<"a">>,                                   \* a
      <<>>,                                      \* the empty string
      <<".", ".">>,                              \* ..
      HomeDir \o <<"/", "a">>,                   \* /home/a
      <<".", ".", "/">> \o <<"h", "o", "m", "e", "/", "a">>,   \* ../home/a
      <<"s", "/", "b">>,                         \* s/b
      <<"C", ":", "\\", "u", "\\", "a">>,        \* C:\u\a
      <<"C", ":", "b">> }                        \* C:b

\* what get_work_item_client may raise instead of returning a client
ClientFailures == { ClientError(ClientMessage), OtherError(ClientMessage) }

\* an exception reaches the except clauses of the download tool
DownloadFail(exc) ==
    /\ result' = DownloadToolError(exc)
    /\ locals' = [locals EXCEPT !.status = "failed", !.exc = exc.kind]
    /\ pc' = "done"

\* download_work_item_attachment is called; get_work_item_client answers
DownloadStart(work_item_id, attachment_id, output_path) ==
    /\ pc = "idle"
    /\ tool' = "download"
    /\ args' = [NoArgs EXCEPT !.work_item_id = work_item_id,
                              !.attachment_id = attachment_id,
                              !.output_path = output_path]
    /\ \/ /\ pc' = "dl_info"
          /\ locals' = [locals EXCEPT !.wit_client = TRUE]
          /\ UNCHANGED result
       \/ \E exc \in ClientFailures : DownloadFail(exc)
    /\ UNCHANGED <<fs, dirs, fs0, workItems, calls>>

\* _get_attachment_info_from_work_item: get_work_item answers or raises
DownloadGetInfo ==
    /\ pc = "dl_info"
    /\ \E raised \in BOOLEAN :
          LET r == GetAttachmentInfoFromWorkItem(args.work_item_id, args.attachment_id,
                                                 raised, workItems[args.work_item_id])
          IN  /\ calls' = Append(calls, Call("get_work_item", args.work_item_id, <<>>,
                                             <<>>, <<>>, ~raised))
              /\ IF r.ok
                 THEN /\ locals' = [locals EXCEPT !.attachment_info = r.info]
                      /\ pc' = "dl_content"
                      /\ UNCHANGED result
                 ELSE DownloadFail(DownloadImplError(args.work_item_id, args.attachment_id,
                                                     r.exc.msg))
    /\ UNCHANGED <<fs, dirs, fs0, workItems, tool, args>>

\* get_attachment_content answers with a generator, or raises
DownloadGetContent ==
    /\ pc = "dl_content"
    /\ \/ /\ calls' = Append(calls, Call("get_attachment_content", 0, args.attachment_id,
                                         <<>>, <<>>, FALSE))
          /\ DownloadFail(DownloadImplError(args.work_item_id, args.attachment_id,
                                            SdkMessage))
       \/ \E chunks \in ChunkLists, raises \in BOOLEAN :
             /\ calls' = Append(calls, Call("get_attachment_content", 0, args.attachment_id,
                                            <<>>, <<>>, TRUE))
             /\ locals' = [locals EXCEPT !.chunks = chunks, !.generatorRaises = raises]
             /\ pc' = "dl_save"
             /\ UNCHANGED result
    /\ UNCHANGED <<fs, dirs, fs0, workItems, tool, args>>

\* the rest of _download_attachment_impl: the save path, makedirs, the file
\* written chunk by chunk, and the tool's response
DownloadSave ==
    /\ pc = "dl_save"
    /\ LET final_path == FinalPath(args.output_path)
           dir == Dirname(Abspath(final_path))
           fail == DownloadFail(DownloadImplError(args.work_item_id, args.attachment_id,
                                                  OsMessage))
       IN  \/ \* os.makedirs raises
              /\ MakedirsRaises(dir, fs) \/ dir \notin dirs
              /\ fail
              /\ UNCHANGED <<fs, dirs>>
           \/ /\ ~MakedirsRaises(dir, fs)
              /\ dirs' = Makedirs(dir, dirs)
              /\ LET target == WriteTarget(final_path, dirs')
                 IN  \/ \* open raises
                        /\ fail
                        /\ UNCHANGED fs
                     \/ /\ target[1]
                        /\ fs' = WriteChunks(OpenWb(fs, target[2]), target[2], locals.chunks)
                        /\ IF locals.generatorRaises
                           THEN fail
                           ELSE LET res == [filename |-> locals.attachment_info.name,
                                            size |-> TotalSize(locals.chunks),
                                            content_type |->
                                               IF locals.attachment_info.attributes.contentType = <<>>
                                               THEN <<"application/octet-stream">>
                                               ELSE locals.attachment_info.attributes.contentType,
                                            saved_to |-> final_path]
                                IN  /\ locals' = [locals EXCEPT !.status = "ok",
                                                                !.final_path = final_path,
                                                                !.total_size = res.size]
                                    /\ result' = DownloadResponse(res)
                                    /\ pc' = "done"
    /\ UNCHANGED <<fs0, workItems, tool, args, calls>>

NextDownload ==
    \/ \E w \in WorkItemIds, a \in AttachmentIds, o \in OutputPaths : DownloadStart(w, a, o)
    \/ DownloadGetInfo
    \/ DownloadGetContent
    \/ DownloadSave

----------------------------------------------------------------------------
(* upload_attachment_to_work_item *)

\* FirstExisting without the break: the last location that exists
LastExisting(locations, f, d) ==
    LET hits == {i \in 1..Len(locations) : Exists(locations[i], f, d)}
    IN  IF hits = {} THEN None
        ELSE locations[CHOOSE i \in hits : \A j \in hits : i >= j]

\* the loop over possible_locations: the first that exists, or None
FirstExisting(locations, f, d) ==
    LET hits == {i \in 1..Len(locations) : Exists(locations[i], f, d)}
    IN  IF hits = {} THEN None
        ELSE locations[CHOOSE i \in hits : \A j \in hits : i <= j]

\* NotFoundInContainer without the directories that were searched
NotFoundNoDirectories(file_path) == <<"File not found", ":", " ">> \o file_path

\* the two messages of a file that was not found
NotFoundInContainer(file_path) ==
    <<"File not found", ":", " ">> \o file_path
    \o <<". Please ensure the file is available in the container in one of these directories",
         ":", " ", "/downloads", ", ", "/uploads", ", or ", "/tmp", ".">>

NotFoundAtPath(file_path) == <<"File not found", ":", " ">> \o file_path

\* file_path.startswith(("/downloads/", "/uploads/", "/tmp/"))
HasContainerPrefix(file_path) ==
    \/ StartsWith(file_path, DownloadsDir \o <<"/">>)
    \/ StartsWith(file_path, UploadsDir \o <<"/">>)
    \/ StartsWith(file_path, TmpDir \o <<"/">>)

\* the three branches that translate file_path into container_path:
\* [ok |-> TRUE, container_path] or [ok |-> FALSE, msg]
WindowsLocations(file_path) ==
    LET filename == WindowsFilename(file_path)
    IN  << Join(DownloadsDir, filename), Join(UploadsDir, filename), Join(TmpDir, filename) >>

AbsoluteLocations(file_path) ==
    LET filename == Basename(file_path)
    IN  << Join(DownloadsDir, filename), Join(UploadsDir, filename), Join(TmpDir, filename) >>

\* RelativeLocations with the path as given tried first
RelativeLocationsAsIsFirst(file_path) ==
    << file_path,
       Join(DownloadsDir, file_path), Join(UploadsDir, file_path), Join(TmpDir, file_path) >>

RelativeLocations(file_path) ==
    << Join(DownloadsDir, file_path), Join(UploadsDir, file_path), Join(TmpDir, file_path),
       file_path >>

LocateFile(file_path, f, d) ==
    LET probe(locations) ==
            LET container_path == FirstExisting(locations, f, d)
            IN  IF Falsy(container_path)
                THEN [ok |-> FALSE, msg |-> NotFoundInContainer(file_path)]
                ELSE [ok |-> TRUE, container_path |-> container_path]
    IN  IF IsWindowsPath(file_path) THEN probe(WindowsLocations(file_path))
        ELSE IF StartsWith(file_path, <<"/">>)
        THEN IF Exists(file_path, f, d) THEN [ok |-> TRUE, container_path |-> file_path]
             ELSE IF ~HasContainerPrefix(file_path) THEN probe(AbsoluteLocations(file_path))
             ELSE [ok |-> FALSE, msg |-> NotFoundAtPath(file_path)]
        ELSE probe(RelativeLocations(file_path))

\* file_name when the caller gave none
DefaultFileName(file_path, file_name) ==
    IF Falsy(file_name) THEN Basename(file_path) ELSE file_name

\* mimetypes.guess_type(file_name)[0], or the default when it finds no type;
\* of the table of extensions only .txt is kept
ContentType(file_name) ==
    IF EndsWith(file_name, <<".", "t", "x", "t">>) THEN <<"text/plain">>
    ELSE <<"application/octet-stream">>

\* the except clause of _upload_attachment_impl
UploadImplError(file_path, msg) ==
    ClientError(<<"Error uploading attachment ">> \o file_path \o <<": ">> \o msg)

\* the except clause of _attach_file_to_work_item_impl
AttachImplError(work_item_id, msg) ==
    ClientError(<<"Error attaching file to work item ", ToString(work_item_id), ": ">> \o msg)

\* the except clauses of the upload tool: the text it returns for an exception
UploadToolError(exc) ==
    IF exc.kind = "AzureDevOpsClientError" THEN <<"Error", ":", " ">> \o exc.msg
    ELSE <<"Error", " uploading attachment", ":", " ">> \o exc.msg

\* PatchDocument with the relation added twice
PatchDocumentTwice(attachment_id, attachment_name, comment) ==
    LET add == [op |-> "add", path |-> "/relations/-",
                value |-> [rel |-> "AttachedFile", url |-> attachment_id,
                           attributes |-> [name |-> attachment_name,
                                           comment |-> IF Falsy(comment) THEN <<>> ELSE comment]]]
    IN  <<add, add>>

\* the JSON patch document that adds the attachment relation
PatchDocument(attachment_id, attachment_name, comment) ==
    << [op |-> "add", path |-> "/relations/-",
        value |-> [rel |-> "AttachedFile", url |-> attachment_id,
                   attributes |-> [name |-> attachment_name,
                                   comment |-> IF Falsy(comment) THEN <<>> ELSE comment]]] >>

\* the server applying a patch document to a work item: every "add" at
\* /relations/- appends its value, and the revision goes up by one
RECURSIVE ApplyPatch(_, _)
ApplyPatch(relations, patch) ==
    IF patch = <<>> THEN relations
    ELSE LET p == Head(patch)
             v == [rel |-> p.value.rel, url |-> p.value.url,
                   attributes |-> [name |-> p.value.attributes.name,
                                   comment |-> p.value.attributes.comment,
                                   contentType |-> <<>>]]
         IN  ApplyPatch(IF p.op = "add" /\ p.path = "/relations/-"
                        THEN Append(relations, v) ELSE relations, Tail(patch))

UpdateWorkItem(item, patch) ==
    [item EXCEPT !.hasRelations = TRUE,
                 !.relations = ApplyPatch(@, patch),
                 !.rev = @ + 1]

\* the response the upload tool formats
UploadResponse(work_item_id, name, size, content_type, container_path, comment) ==
    <<"# File Attached Successfully to Work Item ", ToString(work_item_id), "\n",
      "Filename", ":", " ">> \o name
    \o <<"\n", "Size", ":", " ", ToString(size), " bytes", "\n", "Content Type", ":", " ">>
    \o content_type
    \o <<"\n", "File location in container", ":", " ">> \o container_path
    \o (IF Falsy(comment) THEN <<>> ELSE <<"\n", "Comment", ":", " ">> \o comment)
    \o <<"\n", "", "\n", "The file has been uploaded and attached to the work item.">>

\* the paths an upload is asked for
FilePaths ==
    { <<"a">>,                                   \* a
      <<"b">>,                                   \* b
      <<>>,                                      \* the empty string
      DownloadsDir \o <<"/", "a">>,              \* /downloads/a
      DownloadsDir \o <<"/", "b">>,              \* /downloads/b
      DownloadsDir,                              \* /downloads
      HomeDir \o <<"/", "a">>,                   \* /home/a
      <<"/", "x", "/", "a">>,                    \* /x/a
      <<".", ".", "/">> \o <<"h", "o", "m", "e", "/", "a">>,   \* ../home/a
      <<"s", "/", "a">>,                         \* s/a
      <<"C", ":", "\\", "u", "\\", "a">>,        \* C:\u\a
      <<"C", ":", "a">>,                         \* C:a
      <<"C", ":", "\\">>,                        \* C:\
      <<"\\", "b">> }                            \* \b

FileNames == { None, <<"n", ".", "t", "x", "t">> }
Comments == { None, <<"k">> }
UploadWorkItemIds == {1, 3, 4}


\* the attachments create_attachment may answer with
NewAttachmentIds == { <<"c">>, <<"a", "b">> }

\* an exception reaches the except clauses of the upload tool
UploadFail(exc) ==
    /\ result' = UploadToolError(exc)
    /\ locals' = [locals EXCEPT !.status = "failed", !.exc = exc.kind]
    /\ pc' = "done"

\* upload_attachment_to_work_item is called; get_work_item_client answers
UploadStart(work_item_id, file_path, file_name, comment) ==
    /\ pc = "idle"
    /\ tool' = "upload"
    /\ args' = [NoArgs EXCEPT !.work_item_id = work_item_id, !.file_path = file_path,
                              !.file_name = file_name, !.comment = comment]
    /\ \/ /\ pc' = "ul_locate"
          /\ locals' = [locals EXCEPT !.wit_client = TRUE]
          /\ UNCHANGED result
       \/ \E exc \in ClientFailures : UploadFail(exc)
    /\ UNCHANGED <<fs, dirs, fs0, workItems, calls>>

\* _upload_attachment_impl up to the upload: container_path, file_name, content_type
UploadLocate ==
    /\ pc = "ul_locate"
    /\ LET r == LocateFile(args.file_path, fs, dirs)
       IN  IF r.ok
           THEN LET file_name == DefaultFileName(args.file_path, args.file_name)
                IN  /\ locals' = [locals EXCEPT !.located = TRUE,
                                                !.container_path = r.container_path,
                                                !.file_name = file_name,
                                                !.content_type = ContentType(file_name)]
                    /\ pc' = "ul_create"
                    /\ UNCHANGED result
           ELSE UploadFail(UploadImplError(args.file_path, r.msg))
    /\ UNCHANGED <<fs, dirs, fs0, workItems, tool, args, calls>>

\* create_attachment answered: the result dictionary of _upload_attachment_impl
UploadDone(id) ==
    /\ locals' = [locals EXCEPT !.attachment_url = AttachmentUrl(id),
                                !.size = Len(fs[Resolve(locals.container_path, dirs)[2]])]
    /\ pc' = "ul_get"
    /\ UNCHANGED result

\* the file is opened and create_attachment is given the open file
UploadCreate ==
    /\ pc = "ul_create"
    /\ \/ \* open raises
          /\ pc' = "ul_retry"
          /\ UNCHANGED <<calls, locals, result>>
       \/ /\ IsFile(locals.container_path, fs, dirs)
          /\ \/ /\ calls' = Append(calls, Call("create_attachment", 0, <<>>,
                                               locals.file_name, <<>>, FALSE))
                /\ pc' = "ul_retry"
                /\ UNCHANGED <<locals, result>>
             \/ \E id \in NewAttachmentIds :
                   /\ calls' = Append(calls, Call("create_attachment", 0, id,
                                                  locals.file_name, <<>>, TRUE))
                   /\ UploadDone(id)
    /\ UNCHANGED <<fs, dirs, fs0, workItems, tool, args>>

\* UploadRetry going on to attach the file when the in-memory upload raised
UploadRetryIgnoringFailure ==
    /\ pc = "ul_retry"
    /\ \/ /\ UploadFail(UploadImplError(args.file_path, OsMessage))
          /\ UNCHANGED calls
       \/ /\ IsFile(locals.container_path, fs, dirs)
          /\ \/ /\ calls' = Append(calls, Call("create_attachment", 0, <<>>,
                                               locals.file_name, <<>>, FALSE))
                /\ pc' = "ul_get"
                /\ UNCHANGED <<locals, result>>
             \/ \E id \in NewAttachmentIds :
                   /\ calls' = Append(calls, Call("create_attachment", 0, id,
                                                  locals.file_name, <<>>, TRUE))
                   /\ UploadDone(id)
    /\ UNCHANGED <<fs, dirs, fs0, workItems, tool, args>>

\* UploadRetry trying the in-memory upload once more when it raised
UploadRetryAgain ==
    /\ pc = "ul_retry"
    /\ \/ /\ UploadFail(UploadImplError(args.file_path, OsMessage))
          /\ UNCHANGED calls
       \/ /\ IsFile(locals.container_path, fs, dirs)
          /\ \/ /\ calls' = Append(calls, Call("create_attachment", 0, <<>>,
                                               locals.file_name, <<>>, FALSE))
                /\ IF Len(calls) < 2
                   THEN pc' = "ul_retry" /\ UNCHANGED <<locals, result>>
                   ELSE UploadFail(UploadImplError(args.file_path, SdkMessage))
             \/ \E id \in NewAttachmentIds :
                   /\ calls' = Append(calls, Call("create_attachment", 0, id,
                                                  locals.file_name, <<>>, TRUE))
                   /\ UploadDone(id)
    /\ UNCHANGED <<fs, dirs, fs0, workItems, tool, args>>

\* the direct upload raised: the file is read into memory and
\* create_attachment is given the in-memory copy
UploadRetry ==
    /\ pc = "ul_retry"
    /\ \/ \* open or read raises
          /\ UploadFail(UploadImplError(args.file_path, OsMessage))
          /\ UNCHANGED calls
       \/ /\ IsFile(locals.container_path, fs, dirs)
          /\ \/ /\ calls' = Append(calls, Call("create_attachment", 0, <<>>,
                                               locals.file_name, <<>>, FALSE))
                /\ UploadFail(UploadImplError(args.file_path, SdkMessage))
             \/ \E id \in NewAttachmentIds :
                   /\ calls' = Append(calls, Call("create_attachment", 0, id,
                                                  locals.file_name, <<>>, TRUE))
                   /\ UploadDone(id)
    /\ UNCHANGED <<fs, dirs, fs0, workItems, tool, args>>

\* _attach_file_to_work_item_impl: get_work_item verifies the work item exists
AttachGetWorkItem ==
    /\ pc = "ul_get"
    /\ \E raised \in BOOLEAN :
          /\ calls' = Append(calls, Call("get_work_item", args.work_item_id, <<>>,
                                         <<>>, <<>>, ~raised))
          /\ IF raised
             THEN UploadFail(AttachImplError(args.work_item_id, SdkMessage))
             ELSE IF ~workItems[args.work_item_id].exists
             THEN UploadFail(AttachImplError(args.work_item_id,
                                <<"Work item ", ToString(args.work_item_id), " not found">>))
             ELSE /\ pc' = "ul_update"
                  /\ UNCHANGED <<locals, result>>
    /\ UNCHANGED <<fs, dirs, fs0, workItems, tool, args>>

\* update_work_item is given the patch document; the tool formats its response
AttachUpdateWorkItem ==
    /\ pc = "ul_update"
    /\ LET patch == PatchDocument(locals.attachment_url, locals.file_name, args.comment)
       IN  \/ /\ calls' = Append(calls, Call("update_work_item", args.work_item_id, <<>>,
                                             <<>>, patch, FALSE))
              /\ UploadFail(AttachImplError(args.work_item_id, SdkMessage))
              /\ UNCHANGED workItems
           \/ /\ calls' = Append(calls, Call("update_work_item", args.work_item_id, <<>>,
                                             <<>>, patch, TRUE))
              /\ workItems' = [workItems EXCEPT ![args.work_item_id] = UpdateWorkItem(@, patch)]
              /\ locals' = [locals EXCEPT
                              !.status = "ok",
                              !.updated_work_item_rev = workItems'[args.work_item_id].rev]
              /\ result' = UploadResponse(args.work_item_id, locals.file_name, locals.size,
                                          locals.content_type, locals.container_path,
                                          args.comment)
              /\ pc' = "done"
    /\ UNCHANGED <<fs, dirs, fs0, tool, args>>

NextUpload ==
    \/ \E w \in UploadWorkItemIds, p \in FilePaths, n \in FileNames, c \in Comments :
          UploadStart(w, p, n, c)
    \/ UploadLocate
    \/ UploadCreate
    \/ UploadRetry
    \/ AttachGetWorkItem
    \/ AttachUpdateWorkItem

Next == NextDownload \/ NextUpload

\* a call of either tool
Spec == Init /\ [][Next]_vars

\* a call of download_work_item_attachment
SpecDownload == Init /\ [][NextDownload]_vars

\* a call of upload_attachment_to_work_item
SpecUpload == Init /\ [][NextUpload]_vars

----------------------------------------------------------------------------
(* Properties *)

\* the SDK operations of the running call that were named op
CallsOf(op) == {i \in 1..Len(calls) : calls[i].op = op}

\* the regular file a path of the container names
FileAt(p) == Resolve(p, dirs)[2]

\* C1: a download that completes leaves at the save path exactly the
\* chunks get_attachment_content yielded, concatenated in order, and
\* reports as size the sum of their lengths; the work item then has an
\* AttachedFile relation whose url contains the attachment id.
C1_DownloadWritesChunks ==
    (tool = "download" /\ pc = "done" /\ locals.status = "ok") =>
        /\ \E i \in 1..Len(workItems[args.work_item_id].relations) :
              /\ workItems[args.work_item_id].relations[i].rel = "AttachedFile"
              /\ Contains(workItems[args.work_item_id].relations[i].url, args.attachment_id)
        /\ IsFile(locals.final_path, fs, dirs)
        /\ fs[FileAt(locals.final_path)] = Flatten(locals.chunks)
        /\ locals.total_size = Len(Flatten(locals.chunks))
        /\ Contains(result, <<"Size", ":", " ", ToString(Len(Flatten(locals.chunks))), " bytes">>)
        /\ Contains(result, <<"Saved to", ":", " ">> \o locals.final_path)

\* a download completed over a file that was there, with two different chunks
C1_Witness ==
    /\ tool = "download" /\ pc = "done" /\ locals.status = "ok"
    /\ locals.chunks = << <<1>>, <<0, 1>> >>
    /\ FileAt(locals.final_path) \in DOMAIN fs0

\* C2 as stated: every failed tool call returns a text beginning "Error:"
C2_EveryFailureStartsErrorColon ==
    (pc = "done" /\ locals.status = "failed") => StartsWith(result, <<"Error", ":">>)

\* C2, amended: a failed tool call returns a text beginning "Error"; the
\* text begins "Error:" when the exception is an AzureDevOpsClientError,
\* which every failure after the client was obtained is; an exception of
\* another class comes from get_work_item_client only, and the text then
\* begins "Error downloading attachment:" or "Error uploading attachment:".
C2_FailureReturnsErrorText ==
    (pc = "done" /\ locals.status = "failed") =>
        /\ result # <<>>
        /\ result[1] = "Error"
        /\ locals.wit_client => locals.exc = "AzureDevOpsClientError"
        /\ locals.exc = "AzureDevOpsClientError" => StartsWith(result, <<"Error", ":", " ">>)
        /\ locals.exc # "AzureDevOpsClientError" =>
              /\ calls = <<>>
              /\ tool = "download" =>
                    StartsWith(result, <<"Error", " downloading attachment", ":", " ">>)
              /\ tool = "upload" =>
                    StartsWith(result, <<"Error", " uploading attachment", ":", " ">>)

\* a download failed on an exception that is no AzureDevOpsClientError
C2_Witness ==
    /\ tool = "download" /\ pc = "done" /\ locals.status = "failed"
    /\ locals.exc = "Exception"

\* C3, C7, C8: the path forms and the candidate directories, as the claims
\* name them
CandidateDirs == <<DownloadsDir, UploadsDir, TmpDir>>

\* a drive letter: one character, then a colon
HasDriveLetter(p) == Len(p) >= 2 /\ p[1] # ":" /\ p[2] = ":"

WindowsStyle(p) == (\E i \in 1..Len(p) : p[i] = "\\") \/ HasDriveLetter(p)

AbsolutePosix(p) == ~WindowsStyle(p) /\ Len(p) >= 1 /\ p[1] = "/"

RelativePosix(p) == ~WindowsStyle(p) /\ ~AbsolutePosix(p)

\* what follows the last separator of a path: "/", and "\" in a Windows path
LastComponent(p) ==
    LET seps == {i \in 1..Len(p) : p[i] = "/" \/ (WindowsStyle(p) /\ p[i] = "\\")}
        from == IF seps = {} THEN 1 ELSE 1 + CHOOSE i \in seps : \A j \in seps : j <= i
    IN  [k \in 1..(Len(p) - from + 1) |-> p[from + k - 1]]

\* the candidate directories that hold the file a path names
HoldingDirs(p) ==
    {i \in 1..3 : Exists(CandidateDirs[i] \o <<"/">> \o LastComponent(p), fs, dirs)}

\* the upload has got its client and is past locating the file
Located == tool = "upload" /\ locals.wit_client /\ pc \notin {"idle", "ul_locate"}

NotFoundError ==
    /\ pc = "done" /\ locals.status = "failed" /\ ~locals.located
    /\ Contains(result, <<"File not found", ":", " ">> \o args.file_path)

ListsDirectories ==
    Contains(result, <<"/downloads", ", ", "/uploads", ", or ", "/tmp">>)

\* C3 as stated: a file that is in none of /downloads, /uploads, /tmp makes
\* the upload fail with a not-found error that lists the three directories,
\* and create_attachment is not called
C3_AbsentFromCandidatesFails ==
    (Located /\ HoldingDirs(args.file_path) = {}) =>
        NotFoundError /\ ListsDirectories /\ CallsOf("create_attachment") = {}

\* the locations the locator looks at for a path
ProbedLocations(p) ==
    LET inDirs(name) == {CandidateDirs[i] \o <<"/">> \o name : i \in 1..3}
    IN  IF WindowsStyle(p) THEN inDirs(LastComponent(p))
        ELSE IF AbsolutePosix(p)
        THEN {p} \cup (IF \E i \in 1..3 : StartsWith(p, CandidateDirs[i] \o <<"/">>)
                       THEN {} ELSE inDirs(LastComponent(p)))
        ELSE {p} \cup inDirs(p)

\* C3, amended: when nothing exists at any location the locator looks at
\* (a Windows path: the three directories' file of that name; an absolute
\* path: the path itself and, unless it starts with one of the three
\* directories, their file of that name; a relative path: the path under
\* each of the three directories and the path as given), the upload fails
\* with a not-found error and never calls create_attachment; the error
\* lists /downloads, /uploads, /tmp, except for an absolute path that
\* starts with one of the three directories.
C3_NoProbeHitFails ==
    (Located /\ \A q \in ProbedLocations(args.file_path) : ~Exists(q, fs, dirs)) =>
        /\ NotFoundError
        /\ CallsOf("create_attachment") = {}
        /\ StartsWith(result, <<"Error", ":", " ">>)
        /\ ListsDirectories <=>
              ~(AbsolutePosix(args.file_path)
                /\ \E i \in 1..3 : StartsWith(args.file_path, CandidateDirs[i] \o <<"/">>))

\* an upload of a bare file name that is nowhere failed, the directories listed
C3_Witness ==
    /\ Located /\ args.file_path = <<"b">>
    /\ NotFoundError /\ ListsDirectories

\* C7: a bare file name that is in exactly one of /downloads, /uploads,
\* /tmp is located in that directory, whatever else exists
BareFilename(p) ==
    /\ p # <<>> /\ p # <<".">> /\ p # <<".", ".">>
    /\ ~HasDriveLetter(p)
    /\ \A i \in 1..Len(p) : p[i] \notin {"/", "\\"}

C7_BareFilenameInOneDirectory ==
    (Located /\ BareFilename(args.file_path)) =>
        \A i \in 1..3 :
            HoldingDirs(args.file_path) = {i} =>
                /\ locals.located
                /\ locals.container_path = CandidateDirs[i] \o <<"/">> \o args.file_path

\* a bare file name located in /tmp while the working directory holds it too
C7_Witness ==
    /\ Located /\ args.file_path = <<"a">>
    /\ HoldingDirs(args.file_path) = {3}
    /\ Exists(args.file_path, fs, dirs)
    /\ locals.container_path = TmpDir \o <<"/", "a">>

\* C8 as stated: the located file is always inside /downloads, /uploads or /tmp
InsideCandidateDir(p) == \E i \in 1..3 : StartsWith(p, CandidateDirs[i] \o <<"/">>)

C8_LocatedInsideCandidateDirs ==
    (Located /\ locals.located) => InsideCandidateDir(locals.container_path)

\* the first of the locations that exists is the one located; none: not found
FirstHitOf(locations) ==
    IF \A i \in 1..Len(locations) : ~Exists(locations[i], fs, dirs)
    THEN NotFoundError
    ELSE /\ locals.located
         /\ \E i \in 1..Len(locations) :
               /\ locals.container_path = locations[i]
               /\ Exists(locations[i], fs, dirs)
               /\ \A j \in 1..(i - 1) : ~Exists(locations[j], fs, dirs)

\* C8, amended: a Windows path, and an absolute path that does not exist
\* and does not start with one of the three directories, is looked for by
\* its file name in /downloads, /uploads, /tmp in that order, the first that
\* exists is located, and it is that directory's entry of that name; an
\* absolute path that exists is located as given, wherever it is; an
\* absolute path that starts with one of the three directories and does not
\* exist is not found; a relative path is looked for under /downloads,
\* /uploads, /tmp in that order and then as given; when nothing is hit the
\* call fails with a not-found error.
C8_ProbeOrder ==
    Located =>
        LET p == args.file_path
            byName == [i \in 1..3 |-> CandidateDirs[i] \o <<"/">> \o LastComponent(p)]
            byPath == [i \in 1..4 |-> IF i = 4 THEN p ELSE CandidateDirs[i] \o <<"/">> \o p]
        IN  /\ WindowsStyle(p) =>
                  FirstHitOf(byName) /\ (locals.located => InsideCandidateDir(locals.container_path))
            /\ (AbsolutePosix(p) /\ Exists(p, fs, dirs)) =>
                  locals.located /\ locals.container_path = p
            /\ (AbsolutePosix(p) /\ ~Exists(p, fs, dirs) /\ ~InsideCandidateDir(p)) =>
                  FirstHitOf(byName) /\ (locals.located => InsideCandidateDir(locals.container_path))
            /\ (AbsolutePosix(p) /\ ~Exists(p, fs, dirs) /\ InsideCandidateDir(p)) =>
                  NotFoundError
            /\ RelativePosix(p) => FirstHitOf(byPath)

\* a Windows path whose file is in /uploads and in /tmp is located in /uploads
C8_Witness ==
    /\ Located /\ WindowsStyle(args.file_path)
    /\ HoldingDirs(args.file_path) = {2, 3}
    /\ locals.container_path = UploadsDir \o <<"/", "a">>

SdkOperations == {"get_work_item", "get_attachment_content", "create_attachment",
                  "update_work_item"}

\* C4 as stated: a tool call invokes each SDK operation at most once
C4_EachOperationAtMostOnce ==
    \A op \in SdkOperations : Cardinality(CallsOf(op)) <= 1

\* C4, amended: a tool call invokes get_work_item, get_attachment_content
\* and update_work_item at most once each, also when they fail;
\* create_attachment is invoked at most twice, the second time only after
\* the first raised, and never a third time.
C4_NoRetryButCreateAttachment ==
    /\ \A op \in SdkOperations \ {"create_attachment"} : Cardinality(CallsOf(op)) <= 1
    /\ Cardinality(CallsOf("create_attachment")) <= 2
    /\ \A i, j \in CallsOf("create_attachment") : i < j => ~calls[i].ok
    /\ \A i \in 1..Len(calls) :
          (~calls[i].ok /\ calls[i].op # "create_attachment") =>
              (i = Len(calls) /\ pc = "done" /\ locals.status = "failed")

\* create_attachment raised twice in one upload
C4_Witness ==
    /\ tool = "upload" /\ pc = "done"
    /\ Cardinality(CallsOf("create_attachment")) = 2
    /\ \A i \in CallsOf("create_attachment") : ~calls[i].ok

\* C5: a successful upload adds exactly one relation to the target work
\* item: update_work_item is given one "add" at /relations/- of an
\* AttachedFile relation with the url create_attachment returned, the name
\* of the uploaded file and the comment (or ""); the target's relation list
\* grows by that relation, the other work items stay as they were, and the
\* attach result carries the revision update_work_item returned.
C5_UploadAddsOneRelation ==
    (tool = "upload" /\ pc = "done" /\ locals.status = "ok") =>
        \E c \in CallsOf("create_attachment"), u \in CallsOf("update_work_item") :
            LET before == InitialWorkItems[args.work_item_id]
                after == workItems[args.work_item_id]
                added == after.relations[Len(after.relations)]
            IN  /\ calls[c].ok /\ calls[u].ok
                /\ CallsOf("update_work_item") = {u}
                /\ calls[u].wid = args.work_item_id
                /\ Len(calls[u].patch) = 1
                /\ calls[u].patch[1].op = "add"
                /\ calls[u].patch[1].path = "/relations/-"
                /\ calls[u].patch[1].value.rel = "AttachedFile"
                /\ calls[u].patch[1].value.url = UrlBase \o calls[c].aid
                /\ calls[u].patch[1].value.attributes.name = calls[c].file_name
                /\ calls[u].patch[1].value.attributes.comment =
                      (IF args.comment = None THEN <<>> ELSE args.comment)
                /\ Len(after.relations) = Len(before.relations) + 1
                /\ SubSeq(after.relations, 1, Len(before.relations)) = before.relations
                /\ added.rel = "AttachedFile"
                /\ added.url = UrlBase \o calls[c].aid
                /\ added.attributes.name = calls[c].file_name
                /\ \A w \in WorkItemIds \ {args.work_item_id} :
                      workItems[w] = InitialWorkItems[w]
                /\ after.rev = before.rev + 1
                /\ locals.updated_work_item_rev = after.rev

\* a file was attached without a comment to a work item that had relations
C5_Witness ==
    /\ tool = "upload" /\ pc = "done" /\ locals.status = "ok"
    /\ args.comment = None
    /\ Len(workItems[args.work_item_id].relations) = 3

\* the download has got its client and get_work_item has returned
GotWorkItem ==
    /\ tool = "download" /\ locals.wit_client /\ pc \notin {"idle", "dl_info"}
    /\ calls[1].op = "get_work_item" /\ calls[1].ok

\* C6: when get_work_item returns nothing, or a work item without a
\* relation list or with an empty one, the download fails: the tool returns
\* an error text with "No attachments found in work item <id>",
\* get_attachment_content is not called and no file is written.
C6_NoRelationsNoAttachments ==
    LET item == workItems[args.work_item_id]
    IN  (GotWorkItem /\ (~item.exists \/ ~item.hasRelations \/ Len(item.relations) = 0)) =>
            /\ pc = "done" /\ locals.status = "failed"
            /\ StartsWith(result, <<"Error", ":", " ">>)
            /\ Contains(result, <<"No attachments found in work item ",
                                  ToString(args.work_item_id)>>)
            /\ CallsOf("get_attachment_content") = {}
            /\ fs = fs0

\* a download from a work item that has no relation list failed
C6_Witness ==
    /\ GotWorkItem /\ args.work_item_id = 1
    /\ pc = "done" /\ locals.status = "failed"

\* C9: a download writes no file outside /downloads: every file that is new
\* or changed lies directly in /downloads, no file is removed and no
\* directory but /downloads is made; a successful download leaves a regular
\* file in /downloads named by the last component of output_path.
C9_DownloadStaysInDownloads ==
    tool = "download" =>
        /\ \A q \in DOMAIN fs0 : q \in DOMAIN fs
        /\ \A q \in DOMAIN fs :
              (q \notin DOMAIN fs0 \/ fs[q] # fs0[q]) =>
                  /\ Len(q) > Len(DownloadsDir) + 1
                  /\ StartsWith(q, DownloadsDir \o <<"/">>)
                  /\ \A i \in (Len(DownloadsDir) + 2)..Len(q) : q[i] # "/"
        /\ dirs \subseteq AllDirs
        /\ (pc = "done" /\ locals.status = "ok") =>
              LET saved == DownloadsDir \o <<"/">> \o LastComponent(args.output_path)
              IN  /\ locals.final_path = saved
                  /\ saved \in DOMAIN fs
                  /\ saved \notin dirs
                  /\ fs[saved] = Flatten(locals.chunks)

\* a download asked to save to /home/a, which exists, saved to /downloads/a
C9_Witness ==
    /\ tool = "download" /\ pc = "done" /\ locals.status = "ok"
    /\ args.output_path = HomeDir \o <<"/", "a">>
    /\ args.output_path \in DOMAIN fs0
    /\ locals.chunks # <<>>
    /\ DownloadsDir \o <<"/", "a">> \notin DOMAIN fs0

\* C10: in an upload update_work_item is called only after the file was
\* located and create_attachment has succeeded in the same call, and
\* create_attachment only after the file was located; when locating or
\* uploading fails, and until update_work_item succeeds, the work items are
\* as they were.
C10_LocateCreateUpdateOrder ==
    tool = "upload" =>
        /\ \A u \in CallsOf("update_work_item") :
              /\ locals.located
              /\ \E c \in CallsOf("create_attachment") : c < u /\ calls[c].ok
        /\ CallsOf("create_attachment") # {} => locals.located
        /\ (\A u \in CallsOf("update_work_item") : ~calls[u].ok) =>
              workItems = InitialWorkItems
        /\ (\A c \in CallsOf("create_attachment") : ~calls[c].ok) =>
              /\ CallsOf("update_work_item") = {}
              /\ CallsOf("get_work_item") = {}
              /\ workItems = InitialWorkItems

\* an upload whose second create_attachment succeeded patched the work item
C10_Witness ==
    /\ tool = "upload" /\ pc = "done" /\ locals.status = "ok"
    /\ Len(calls) = 4
    /\ workItems # InitialWorkItems

\* C11: when no file_name is given (None or empty), the name the attachment
\* gets is the last component of file_path, for every form of path, a
\* Windows path included: the name create_attachment is given, the name in
\* the relation added to the work item and the name the tool reports are
\* the file name the locator looked for.
C11_DefaultNameIsLastComponent ==
    (Located /\ locals.located /\ (args.file_name = None \/ args.file_name = <<>>)) =>
        /\ \A c \in CallsOf("create_attachment") :
              calls[c].file_name = LastComponent(args.file_path)
        /\ \A u \in CallsOf("update_work_item") :
              calls[u].patch[1].value.attributes.name = LastComponent(args.file_path)
        /\ (pc = "done" /\ locals.status = "ok") =>
              Contains(result, <<"Filename", ":", " ">> \o LastComponent(args.file_path)
                               \o <<"\n">>)

====
